---- MODULE Spec2Model ----
(***************************************************************************)
(* The course / module / content hierarchy of courses/models.py and the    *)
(* request handlers of courses/views.py, as a state machine over the       *)
(* database tables.  One action is one request handled to completion.      *)
(* Every action leaves in `last` the request it served and its outcome.    *)
(***************************************************************************)
EXTENDS Integers, Sequences, FiniteSets, TLC

\* ------------------------------------------------------------- bounds
\* Rows ever inserted per table (primary keys are never reused).
MaxCourses == 2
MaxModules == 2
MaxContents == 2
MaxEnrollments == 2
\* Largest value of an `order` column.
MaxOrder == 2

\* ------------------------------------------------------------- users
\* The identity collaborator: two instructors, one student, and the
\* anonymous (unauthenticated) user.
Instructors == {"i1", "i2"}
Students == {"s1"}
Users == Instructors \cup Students \cup {"anon"}

is_authenticated(u) == u # "anon"

user_type(u) ==
    IF u \in Instructors THEN "instructor"
    ELSE IF u \in Students THEN "student" ELSE "none"

\* ------------------------------------------------------------- values
\* order = NULL (models.py: null=True).
NoOrder == -1
\* The ContentForm 'order' input: key absent from the POST data, or blank.
Omitted == -2
Blank == -1

\* The four payload models, by lower-cased class name.
Kinds == {"textcontent", "videocontent", "imagecontent", "filecontent"}

\* ------------------------------------------------------------- tables
VARIABLES
    courses,      \* id -> [instructor, is_published]
    modules,      \* id -> [course, order]
    contents,     \* id -> [module, title, order, content_type, object_id]
    items,        \* kind -> (id -> payload data)
    enrollments,  \* id -> [student, course, completed_contents]
    nextId,       \* [course, module, content, enrollment, item: kind -> n]
    last,         \* the last request served and its outcome
    inflight      \* enroll requests past the exists() test, not yet at create

vars == <<courses, modules, contents, items, enrollments, nextId, last, inflight>>
db == <<courses, modules, contents, items, enrollments>>

Empty == [x \in {} |-> x]
Put(f, k, v) == [x \in DOMAIN f \cup {k} |-> IF x = k THEN v ELSE f[x]]
Drop(f, S) == [x \in DOMAIN f \ S |-> f[x]]

\* The request record: the view, the acting user, the course or module id of
\* the path, the pk of the path (0: the route carries none), the model_name of
\* the path, the cleaned form order of a content the request saved, the URL
\* route and kwargs of a test_func evaluation or of a student's request, the
\* outcome, the template context of a rendered course player, the title a
\* content form submitted, and the HTTP method of a mark or unmark.
Resp(op, u, id, pk, mn, ord, kw, outcome) ==
    [op |-> op, user |-> u, id |-> id, pk |-> pk, model_name |-> mn,
     order |-> ord, route |-> "", kw |-> kw, outcome |-> outcome,
     context |-> Empty, title |-> "", method |-> ""]

Init ==
    /\ courses = Empty
    /\ modules = Empty
    /\ contents = Empty
    /\ items = [k \in Kinds |-> Empty]
    /\ enrollments = Empty
    /\ nextId = [course |-> 1, module |-> 1, content |-> 1, enrollment |-> 1,
                 item |-> [k \in Kinds |-> 1]]
    /\ last = Resp("none", "anon", 0, 0, "", NoOrder, Empty, "none")
    /\ inflight = {}

\* ------------------------------------------------------------- access
\* LoginRequiredMixin.dispatch: an unauthenticated user is sent to login.
InstructorRequiredMixin_test_func(u) ==
    is_authenticated(u) /\ user_type(u) = "instructor"

\* CourseOwnerRequiredMixin.test_func over the URL kwargs (a function from
\* the keys present to ids).  Resolved is the set holding the course id the
\* branches find; an early `return False` and `course_id = None` are {}.
Resolved(kw) ==
    IF "pk" \in DOMAIN kw THEN {kw["pk"]}
    ELSE IF "course_id" \in DOMAIN kw THEN {kw["course_id"]}
    ELSE IF "module_id" \in DOMAIN kw THEN
        IF kw["module_id"] \in DOMAIN modules
        THEN {modules[kw["module_id"]].course} ELSE {}
    ELSE IF "content_id" \in DOMAIN kw THEN
        IF kw["content_id"] \in DOMAIN contents
        THEN {modules[contents[kw["content_id"]].module].course} ELSE {}
    ELSE IF "enrollment_id" \in DOMAIN kw THEN
        IF kw["enrollment_id"] \in DOMAIN enrollments
        THEN {enrollments[kw["enrollment_id"]].course} ELSE {}
    ELSE {}

\* A test_func that forgets to compare the course's instructor with the user.
test_func_any_course(u, kw) ==
    IF ~is_authenticated(u) \/ user_type(u) # "instructor" THEN FALSE
    ELSE \E cid \in Resolved(kw) : cid # 0 /\ cid \in DOMAIN courses

CourseOwnerRequiredMixin_test_func(u, kw) ==
    IF ~is_authenticated(u) \/ user_type(u) # "instructor" THEN FALSE
    ELSE \E cid \in Resolved(kw) :
            /\ cid # 0
            /\ cid \in DOMAIN courses
            /\ courses[cid].instructor = u

\* The test_func a view declared as
\*   (LoginRequiredMixin, InstructorRequiredMixin, CourseOwnerRequiredMixin, V)
\* runs: UserPassesTestMixin.dispatch calls self.test_func once, and the
\* method resolution order finds InstructorRequiredMixin's first.
DeclaredTestFunc(u, kw) == InstructorRequiredMixin_test_func(u)

\* The outcome of the mixins' dispatch: "login" (redirect to the login page),
\* "forbidden" (PermissionDenied), or "pass" on to the handler.
Dispatch(u, kw) ==
    IF ~is_authenticated(u) THEN "login"
    ELSE IF ~DeclaredTestFunc(u, kw) THEN "forbidden"
    ELSE "pass"

\* ------------------------------------------------------------- cascades
ModulesOf(cs) == {m \in DOMAIN modules : modules[m].course \in cs}
ContentsOf(ms) == {c \in DOMAIN contents : contents[c].module \in ms}

\* Deleting Content rows removes them from every completion set (the
\* many-to-many rows cascade); the payload rows stay (a GenericForeignKey
\* does not cascade to its target).
Uncomplete(es, gone) ==
    [e \in DOMAIN es |->
        [es[e] EXCEPT !.completed_contents = @ \ gone]]

DeleteContents(gone) ==
    /\ contents' = Drop(contents, gone)
    /\ enrollments' = Uncomplete(enrollments, gone)

DeleteModules(ms) ==
    /\ modules' = Drop(modules, ms)
    /\ contents' = Drop(contents, ContentsOf(ms))
    /\ enrollments' = Uncomplete(enrollments, ContentsOf(ms))

DeleteCourses(cs) ==
    /\ courses' = Drop(courses, cs)
    /\ modules' = Drop(modules, ModulesOf(cs))
    /\ contents' = Drop(contents, ContentsOf(ModulesOf(cs)))
    /\ enrollments' =
         Uncomplete(Drop(enrollments,
                         {e \in DOMAIN enrollments : enrollments[e].course \in cs}),
                    ContentsOf(ModulesOf(cs)))

\* ------------------------------------------------------------- courses
\* CourseCreateView (POST, valid form): the course belongs to the creator.
CourseCreateView(u, pub) ==
    /\ nextId.course <= MaxCourses
    /\ LET gate == IF ~is_authenticated(u) THEN "login"
                   ELSE IF ~InstructorRequiredMixin_test_func(u) THEN "forbidden"
                   ELSE "pass"
       IN IF gate = "pass"
          THEN /\ courses' = Put(courses, nextId.course,
                                 [instructor |-> u, is_published |-> pub])
               /\ nextId' = [nextId EXCEPT !.course = @ + 1]
               /\ last' = Resp("course_create", u, 0, 0, "", NoOrder, Empty, "saved")
          ELSE /\ UNCHANGED <<courses, nextId>>
               /\ last' = Resp("course_create", u, 0, 0, "", NoOrder, Empty, gate)
    /\ UNCHANGED <<modules, contents, items, enrollments, inflight>>

\* CourseUpdateView (POST, valid form) on /<pk>/edit/.
CourseUpdateView(u, pk, pub) ==
    LET gate == Dispatch(u, [k \in {"pk"} |-> pk])
        out == IF gate # "pass" THEN gate
               ELSE IF pk \notin DOMAIN courses THEN "not_found"
               ELSE "saved"
    IN /\ courses' = IF out = "saved"
                     THEN [courses EXCEPT ![pk].is_published = pub]
                     ELSE courses
       /\ last' = Resp("course_edit", u, 0, pk, "", NoOrder, Empty, out)
       /\ UNCHANGED <<modules, contents, items, enrollments, nextId, inflight>>

\* CourseDeleteView (POST) on /<pk>/delete/.
CourseDeleteView(u, pk) ==
    LET gate == Dispatch(u, [k \in {"pk"} |-> pk])
        out == IF gate # "pass" THEN gate
               ELSE IF pk \notin DOMAIN courses THEN "not_found"
               ELSE "deleted"
    IN /\ IF out = "deleted"
          THEN DeleteCourses({pk})
          ELSE UNCHANGED <<courses, modules, contents, enrollments>>
       /\ last' = Resp("course_delete", u, 0, pk, "", NoOrder, Empty, out)
       /\ UNCHANGED <<items, nextId, inflight>>

\* ------------------------------------------------------------- modules
MaxOf(S) == IF S = {} THEN NoOrder ELSE CHOOSE x \in S : \A y \in S : y <= x

\* aggregate(Max('order')) over a set of rows: NULL orders are ignored, and
\* the aggregate of no value is None.
ModuleMaxOrder(cid) ==
    MaxOf({modules[m].order : m \in ModulesOf({cid})} \ {NoOrder})

\* The order the view saves for an instance whose order is `order`:
\* (max_order or 0) + 1 when it is None.
module_order(course_id, order) ==
    IF order = NoOrder
    THEN (IF ModuleMaxOrder(course_id) = NoOrder
          THEN 0 ELSE ModuleMaxOrder(course_id)) + 1
    ELSE order

\* ModuleCreateUpdateView.post on /<course_id>/module/create/ (pk = 0: the
\* route carries none) and /<course_id>/module/<pk>/edit/.  ord is the form's
\* order input (NoOrder when blank, Omitted when the key is absent); the
\* form's other fields are valid.
ModuleCreateUpdateView_post(u, course_id, pk, ord) ==
    LET kw == IF pk = 0 THEN [k \in {"course_id"} |-> course_id]
              ELSE [k \in {"course_id", "pk"} |->
                       IF k = "pk" THEN pk ELSE course_id]
        gate == Dispatch(u, kw)
        found == course_id \in DOMAIN courses /\ courses[course_id].instructor = u
        exists == pk \in DOMAIN modules /\ modules[pk].course = course_id
        out == IF gate # "pass" THEN gate
               ELSE IF ~found THEN "not_found"
               ELSE IF pk # 0 /\ ~exists THEN "not_found"
               ELSE "saved"
        \* form.save(commit=False): a key absent from the POST data leaves
        \* the instance's own order (the field default 0 on a new Module)
        inst_order == IF ord # Omitted THEN ord
                      ELSE IF pk = 0 \/ ~exists THEN 0 ELSE modules[pk].order
        new_order == module_order(course_id, inst_order)
        id == IF pk = 0 THEN nextId.module ELSE pk
    IN /\ pk = 0 => nextId.module <= MaxModules
       /\ out = "saved" => new_order <= MaxOrder
       /\ IF out = "saved"
          THEN /\ modules' = Put(modules, id, [course |-> course_id, order |-> new_order])
               /\ nextId' = IF pk = 0 THEN [nextId EXCEPT !.module = @ + 1] ELSE nextId
          ELSE UNCHANGED <<modules, nextId>>
       /\ last' = Resp("module_post", u, course_id, pk, "", ord, Empty, out)
       /\ UNCHANGED <<courses, contents, items, enrollments, inflight>>

\* ModuleDeleteView (POST) on /module/<pk>/delete/.
ModuleDeleteView(u, pk) ==
    LET gate == Dispatch(u, [k \in {"pk"} |-> pk])
        out == IF gate # "pass" THEN gate
               ELSE IF pk \notin DOMAIN modules THEN "not_found"
               ELSE "deleted"
    IN /\ IF out = "deleted"
          THEN DeleteModules({pk})
          ELSE UNCHANGED <<modules, contents, enrollments>>
       /\ last' = Resp("module_delete", u, 0, pk, "", NoOrder, Empty, out)
       /\ UNCHANGED <<courses, items, nextId, inflight>>

\* ------------------------------------------------------------- contents
\* get_object_or_404(Module, id=module_id, course__instructor=request.user)
OwnedModule(u, module_id) ==
    /\ module_id \in DOMAIN modules
    /\ courses[modules[module_id].course].instructor = u

\* content_obj.item.__class__.__name__.lower(): the payload row the generic
\* key finds, or None when no row of that kind has that id.
ItemKind(c) ==
    IF c.object_id \in DOMAIN items[c.content_type]
    THEN c.content_type ELSE "nonetype"

\* The form class of a model_name, or None.
get_content_form_class(model_name) ==
    IF model_name \in Kinds THEN model_name ELSE "None"

\* aggregate(max_order=Max('order')) over module.contents.
ContentMaxOrder(module_id) ==
    MaxOf({contents[c].order : c \in ContentsOf({module_id})} \ {NoOrder})

\* A table with no constraint on (module, order).
no_unique_together(rows, id, module_id, ord) == FALSE

\* unique_together = ('module', 'order'): a row other than `id` of the same
\* module holds the same order.  NULL orders never collide.
UniqueViolation(rows, id, module_id, ord) ==
    /\ ord # NoOrder
    /\ \E c \in DOMAIN rows \ {id} :
          rows[c].module = module_id /\ rows[c].order = ord

\* cleaned_data['order']: None when the input is blank or absent.
CleanedOrder(ord_in) == IF ord_in \in {Omitted, Blank} THEN NoOrder ELSE ord_in

\* ContentForm.is_valid(): the posted module (fm) is an existing Module, and
\* the model instance the form builds passes validate_unique.  The instance
\* takes the posted module; it takes the posted order unless the key is
\* absent from the data, and then keeps its own (the field default 0 on a
\* new instance).
ContentForm_is_valid(pk, fm, ord_in) ==
    LET own == IF pk = 0 THEN 0 ELSE contents[pk].order
        inst_order == IF ord_in = Omitted THEN own ELSE CleanedOrder(ord_in)
    IN /\ fm \in DOMAIN modules
       /\ ~UniqueViolation(contents, pk, fm, inst_order)

\* A determined_order that tests `if not form_provided_order`, taking a
\* supplied 0 for no order.
determined_order_falsy(module_id, form_provided_order) ==
    IF form_provided_order \in {NoOrder, 0}
    THEN (IF ContentMaxOrder(module_id) = NoOrder
          THEN 0 ELSE ContentMaxOrder(module_id)) + 1
    ELSE form_provided_order

\* The order a new Content takes.
determined_order(module_id, form_provided_order) ==
    IF form_provided_order = NoOrder
    THEN (IF ContentMaxOrder(module_id) = NoOrder
          THEN 0 ELSE ContentMaxOrder(module_id)) + 1
    ELSE form_provided_order

\* A save that gives an updated Content without an order the next free one
\* of its module, as a created Content gets.
SavedContent_auto_order(module_id, model_name, pk, fm, title, ord_in) ==
    [module |-> IF pk = 0 THEN module_id ELSE fm, title |-> title,
     order |-> determined_order(IF pk = 0 THEN module_id ELSE fm, CleanedOrder(ord_in)),
     content_type |-> IF pk = 0 THEN model_name ELSE contents[pk].content_type,
     object_id |-> IF pk = 0 THEN nextId.item[model_name] ELSE contents[pk].object_id]

\* The Content row the POST saves.
SavedContent(module_id, model_name, pk, fm, title, ord_in) ==
    IF pk = 0
    THEN [module |-> module_id, title |-> title,
          order |-> determined_order(module_id, CleanedOrder(ord_in)),
          content_type |-> model_name, object_id |-> nextId.item[model_name]]
    ELSE [contents[pk] EXCEPT !.module = fm, !.title = title,
                              !.order = CleanedOrder(ord_in)]

\* The checks without the comparison of the Content's module with the path's.
ContentChecks_no_module(u, module_id, model_name, pk, mismatch) ==
    LET gate == Dispatch(u, [k \in {"module_id"} |-> module_id])
    IN IF gate # "pass" THEN gate
       ELSE IF ~OwnedModule(u, module_id) THEN "not_found"
       ELSE IF pk # 0 /\ pk \notin DOMAIN contents THEN "not_found"
       ELSE IF pk # 0 /\ ItemKind(contents[pk]) # model_name THEN mismatch
       ELSE IF get_content_form_class(model_name) = "None" THEN "type_error"
       ELSE "pass"

\* The checks without the comparison of the payload's kind with model_name.
ContentChecks_no_kind(u, module_id, model_name, pk, mismatch) ==
    LET gate == Dispatch(u, [k \in {"module_id"} |-> module_id])
    IN IF gate # "pass" THEN gate
       ELSE IF ~OwnedModule(u, module_id) THEN "not_found"
       ELSE IF pk # 0 /\ pk \notin DOMAIN contents THEN "not_found"
       ELSE IF pk # 0 /\ contents[pk].module # module_id THEN "not_found"
       ELSE IF get_content_form_class(model_name) = "None" THEN "type_error"
       ELSE "pass"

\* The checks of get and post before any form is built: "pass", or the
\* response.  A model_name with no form class makes the handler call None.
ContentChecks(u, module_id, model_name, pk, mismatch) ==
    LET gate == Dispatch(u, [k \in {"module_id"} |-> module_id])
    IN IF gate # "pass" THEN gate
       ELSE IF ~OwnedModule(u, module_id) THEN "not_found"
       ELSE IF pk # 0 /\ pk \notin DOMAIN contents THEN "not_found"
       ELSE IF pk # 0 /\ contents[pk].module # module_id THEN "not_found"
       ELSE IF pk # 0 /\ ItemKind(contents[pk]) # model_name THEN mismatch
       ELSE IF get_content_form_class(model_name) = "None" THEN "type_error"
       ELSE "pass"

\* ModuleContentCreateUpdateView.get.  On a kind mismatch the redirect
\* reverses 'course_detail' with a pk and no slug, which no route matches.
ModuleContentCreateUpdateView_get_outcome(u, module_id, model_name, pk) ==
    LET pre == ContentChecks(u, module_id, model_name, pk, "no_reverse_match")
    IN IF pre # "pass" THEN pre ELSE "rendered"

\* ModuleContentCreateUpdateView.post: data is the payload form's input
\* ("" fails its validation), fm/title/ord_in the ContentForm's.
ModuleContentCreateUpdateView_post_outcome(u, module_id, model_name, pk, fm, title, ord_in, data) ==
    LET pre == ContentChecks(u, module_id, model_name, pk, "conflict")
        row == SavedContent(module_id, model_name, pk, fm, title, ord_in)
    IN IF pre # "pass" THEN pre
       ELSE IF data = "" \/ ~ContentForm_is_valid(pk, fm, ord_in) THEN "invalid"
       ELSE IF UniqueViolation(contents, pk, row.module, row.order)
            THEN "integrity_error"
       ELSE "saved"

\* The two saves with no transaction around them: each is its own commit.
autocommit(before, written, raised) == written

\* with transaction.atomic(): the writes of the block are kept when it ends
\* without an exception, and undone otherwise.
transaction_atomic(before, written, raised) ==
    IF raised THEN before ELSE written

ModuleContentCreateUpdateView_get(u, module_id, model_name, pk) ==
    /\ last' = Resp("content_get", u, module_id, pk, model_name, NoOrder, Empty,
                    ModuleContentCreateUpdateView_get_outcome(u, module_id, model_name, pk))
    /\ UNCHANGED <<courses, modules, contents, items, enrollments, nextId, inflight>>

ModuleContentCreateUpdateView_post(u, module_id, model_name, pk, fm, title, ord_in, data) ==
    LET out == ModuleContentCreateUpdateView_post_outcome(
                   u, module_id, model_name, pk, fm, title, ord_in, data)
        in_block == out \in {"saved", "integrity_error"}
        raised == out = "integrity_error"
        row == SavedContent(module_id, model_name, pk, fm, title, ord_in)
        \* item_form.save(): a new payload row, or the existing one rewritten
        item_id == IF pk = 0 THEN nextId.item[model_name] ELSE contents[pk].object_id
        items_w == [items EXCEPT ![model_name] = Put(@, item_id, data)]
        next_w == IF pk = 0
                  THEN [nextId EXCEPT !.item[model_name] = @ + 1]
                  ELSE nextId
        \* content_obj.save()
        id == IF pk = 0 THEN nextId.content ELSE pk
    IN /\ (in_block /\ pk = 0) =>
             /\ nextId.content <= MaxContents
             /\ nextId.item[model_name] <= MaxContents
             /\ row.order <= MaxOrder
       /\ IF in_block
          THEN /\ items' = transaction_atomic(items, items_w, raised)
               /\ contents' = IF raised THEN contents ELSE Put(contents, id, row)
               /\ nextId' = transaction_atomic(
                                nextId,
                                IF pk = 0 /\ ~raised
                                THEN [next_w EXCEPT !.content = @ + 1] ELSE next_w,
                                raised)
          ELSE UNCHANGED <<items, contents, nextId>>
       /\ last' = [Resp("content_post", u, module_id, pk, model_name,
                        IF out = "saved" THEN CleanedOrder(ord_in) ELSE NoOrder,
                        Empty, out) EXCEPT !.title = title]
       /\ UNCHANGED <<courses, modules, enrollments, inflight>>

\* ContentDeleteView (POST) on /content/<content_id>/delete/.
ContentDeleteView(u, content_id) ==
    LET gate == Dispatch(u, [k \in {"content_id"} |-> content_id])
        out == IF gate # "pass" THEN gate
               ELSE IF content_id \notin DOMAIN contents THEN "not_found"
               ELSE IF courses[modules[contents[content_id].module].course].instructor # u
                    THEN "not_found"
               ELSE "deleted"
    IN /\ IF out = "deleted"
          THEN DeleteContents({content_id})
          ELSE UNCHANGED <<contents, enrollments>>
       /\ last' = Resp("content_delete", u, 0, content_id, "", NoOrder, Empty, out)
       /\ UNCHANGED <<courses, modules, items, nextId, inflight>>

\* ------------------------------------------------------------- reorder
\* ContentOrderView.post: the loop over the decoded list, one pair at a time.
\* A pair is [id, order]; Omitted stands for a key the pair lacks.  Each
\* save() is its own commit.  The result is the rows after the loop and the
\* response: the first pair that fails ends the loop.
RECURSIVE OrderLoop(_, _, _)
OrderLoop(rows, module_id, batch) ==
    IF batch = <<>> THEN [rows |-> rows, outcome |-> "ok"]
    ELSE LET item == Head(batch)
         IN IF item.id = Omitted
            THEN [rows |-> rows, outcome |-> "missing_key"]
            ELSE IF item.id \notin DOMAIN rows \/ rows[item.id].module # module_id
            THEN [rows |-> rows, outcome |-> "not_found"]
            ELSE IF item.order = Omitted
            THEN [rows |-> rows, outcome |-> "missing_key"]
            ELSE IF UniqueViolation(rows, item.id, module_id, item.order)
            THEN [rows |-> rows, outcome |-> "integrity_error"]
            ELSE OrderLoop([rows EXCEPT ![item.id].order = item.order],
                           module_id, Tail(batch))

\* The view is declared (LoginRequiredMixin, InstructorRequiredMixin, View).
\* json_ok: the body decodes.
ContentOrderView_post(u, module_id, json_ok, batch) ==
    LET gate == IF ~is_authenticated(u) THEN "login"
                ELSE IF ~InstructorRequiredMixin_test_func(u) THEN "forbidden"
                ELSE "pass"
        loop == OrderLoop(contents, module_id, batch)
        out == IF gate # "pass" THEN gate
               ELSE IF ~OwnedModule(u, module_id) THEN "not_found_module"
               ELSE IF ~json_ok THEN "invalid_json"
               ELSE loop.outcome
        ran == gate = "pass" /\ OwnedModule(u, module_id) /\ json_ok
    IN /\ contents' = IF ran THEN loop.rows ELSE contents
       /\ last' = Resp("content_order", u, module_id, 0, "", NoOrder, Empty, out)
       /\ UNCHANGED <<courses, modules, items, enrollments, nextId, inflight>>

\* ------------------------------------------------------------- enrollment
\* A lookup that never finds the Enrollment.
never_enrolled(u, course_id) == FALSE

Enrolled(u, course_id) ==
    \E e \in DOMAIN enrollments :
        enrollments[e].student = u /\ enrollments[e].course = course_id

\* enroll_course without the user_type test.
enroll_course_any_type(u, method, course_id) ==
    IF ~is_authenticated(u) THEN "login"
    ELSE IF course_id \notin DOMAIN courses THEN "not_found"
    ELSE IF method # "POST" THEN "not_post"
    ELSE IF Enrolled(u, course_id) THEN "already_enrolled"
    ELSE "enrolled"

\* enroll_course, run from its first line to its response.
enroll_course_outcome(u, method, course_id) ==
    IF ~is_authenticated(u) THEN "login"
    ELSE IF course_id \notin DOMAIN courses THEN "not_found"
    ELSE IF method # "POST" THEN "not_post"
    ELSE IF user_type(u) # "student" THEN "not_student"
    ELSE IF Enrolled(u, course_id) THEN "already_enrolled"
    ELSE "enrolled"

enroll_course(u, method, course_id) ==
    LET out == enroll_course_outcome(u, method, course_id)
    IN /\ out = "enrolled" => nextId.enrollment <= MaxEnrollments
       /\ IF out = "enrolled"
          THEN /\ enrollments' = Put(enrollments, nextId.enrollment,
                                     [student |-> u, course |-> course_id,
                                      completed_contents |-> {}])
               /\ nextId' = [nextId EXCEPT !.enrollment = @ + 1]
          ELSE UNCHANGED <<enrollments, nextId>>
       /\ last' = Resp(IF method = "POST" THEN "enroll_post" ELSE "enroll_get",
                       u, course_id, 0, "", NoOrder, Empty, out)
       /\ UNCHANGED <<courses, modules, contents, items, inflight>>

\* Two requests in one database.  Each request is a thread of its own; the
\* rows are in the database, so one request's create can fall between
\* another's exists() test and its create.  Requests in flight at once:
MaxInflight == 2

\* enroll_course from its first line through the exists() test (views.py
\* 402-420), as request r.  A request that passes every test is left in
\* flight in front of Enrollment.objects.create; any other is answered.
enroll_course_check(r, u, method, course_id) ==
    LET out == enroll_course_outcome(u, method, course_id)
    IN /\ \A q \in inflight : q.req # r
       /\ IF out = "enrolled"
          THEN /\ inflight' = inflight \cup
                                {[req |-> r, user |-> u, course |-> course_id]}
               /\ UNCHANGED last
          ELSE /\ last' = Resp(IF method = "POST" THEN "enroll_post" ELSE "enroll_get",
                               u, course_id, 0, "", NoOrder, Empty, out)
               /\ UNCHANGED inflight
       /\ UNCHANGED <<courses, modules, contents, items, enrollments, nextId>>

\* The try block (views.py 423-431) of a request in flight.  The INSERT
\* raises IntegrityError when the (student, course) row is there by now, or
\* the course is gone; `except Exception` answers with the "Failed to
\* enroll" error message and a redirect to the course page.
enroll_course_create(q) ==
    LET raised == \/ Enrolled(q.user, q.course)
                  \/ q.course \notin DOMAIN courses
    IN /\ q \in inflight
       /\ inflight' = inflight \ {q}
       /\ ~raised => nextId.enrollment <= MaxEnrollments
       /\ IF raised
          THEN UNCHANGED <<enrollments, nextId>>
          ELSE /\ enrollments' = Put(enrollments, nextId.enrollment,
                                     [student |-> q.user, course |-> q.course,
                                      completed_contents |-> {}])
               /\ nextId' = [nextId EXCEPT !.enrollment = @ + 1]
       /\ last' = Resp("enroll_post", q.user, q.course, 0, "", NoOrder, Empty,
                       IF raised THEN "failed" ELSE "enrolled")
       /\ UNCHANGED <<courses, modules, contents, items>>

\* ------------------------------------------------------------- progress
\* Count('contents') over course.modules: the Content rows of the modules.
total_contents(course_id) == Cardinality(ContentsOf(ModulesOf({course_id})))

\* A get_progress that counts the course's modules for its contents.
get_progress_of_modules(e) ==
    LET total == Cardinality(ModulesOf({enrollments[e].course}))
    IN IF total = 0 THEN [num |-> 0, den |-> 1]
       ELSE [num |-> Cardinality(enrollments[e].completed_contents) * 100,
             den |-> total]

\* A get_progress that reports the share still to do.
get_progress_remaining(e) ==
    LET total == total_contents(enrollments[e].course)
    IN IF total = 0 THEN [num |-> 0, den |-> 1]
       ELSE [num |-> (total - Cardinality(enrollments[e].completed_contents)) * 100,
             den |-> total]

\* Enrollment.get_progress: 0 when the count is 0, and otherwise
\* (completed_count / total_contents) * 100, kept as the quotient num / den
\* (the float the code returns is that quotient rounded).
get_progress(e) ==
    LET total == total_contents(enrollments[e].course)
    IN IF total = 0 THEN [num |-> 0, den |-> 1]
       ELSE [num |-> Cardinality(enrollments[e].completed_contents) * 100,
             den |-> total]

\* The lookups without the student filter on the Enrollment.
CompletionTarget_any_student(u, enrollment_id, module_id, content_id) ==
    /\ enrollment_id \in DOMAIN enrollments
    /\ module_id \in DOMAIN modules
    /\ modules[module_id].course = enrollments[enrollment_id].course
    /\ content_id \in DOMAIN contents
    /\ contents[content_id].module = module_id

\* The three get_object_or_404 of mark and unmark: the Enrollment of the
\* user, the Module of its course, the Content of that module.
CompletionTarget(u, enrollment_id, module_id, content_id) ==
    /\ enrollment_id \in DOMAIN enrollments
    /\ enrollments[enrollment_id].student = u
    /\ module_id \in DOMAIN modules
    /\ modules[module_id].course = enrollments[enrollment_id].course
    /\ content_id \in DOMAIN contents
    /\ contents[content_id].module = module_id

\* mark_content_as_complete with no exists() test before the add.
mark_without_test(u, method, enrollment_id, module_id, content_id) ==
    IF ~is_authenticated(u) THEN "login"
    ELSE IF method # "POST" THEN "not_post"
    ELSE IF ~CompletionTarget(u, enrollment_id, module_id, content_id)
         THEN "not_found"
    ELSE "marked"

mark_content_as_complete_outcome(u, method, enrollment_id, module_id, content_id) ==
    IF ~is_authenticated(u) THEN "login"
    ELSE IF method # "POST" THEN "not_post"
    ELSE IF ~CompletionTarget(u, enrollment_id, module_id, content_id)
         THEN "not_found"
    ELSE IF content_id \in enrollments[enrollment_id].completed_contents
         THEN "already_completed"
    ELSE "marked"

unmark_content_as_complete_outcome(u, method, enrollment_id, module_id, content_id) ==
    IF ~is_authenticated(u) THEN "login"
    ELSE IF method # "POST" THEN "not_post"
    ELSE IF ~CompletionTarget(u, enrollment_id, module_id, content_id)
         THEN "not_found"
    ELSE IF content_id \in enrollments[enrollment_id].completed_contents
         THEN "unmarked"
    ELSE "not_completed"

StudentKwargs(enrollment_id, module_id, content_id) ==
    [enrollment_id |-> enrollment_id, module_id |-> module_id,
     content_id |-> content_id]

mark_content_as_complete(u, method, enrollment_id, module_id, content_id) ==
    LET out == mark_content_as_complete_outcome(
                   u, method, enrollment_id, module_id, content_id)
    IN /\ enrollments' =
             IF out = "marked"
             THEN [enrollments EXCEPT ![enrollment_id].completed_contents =
                                          @ \cup {content_id}]
             ELSE enrollments
       /\ last' = [Resp("mark_content_as_complete", u, enrollment_id, content_id,
                        "", NoOrder,
                        StudentKwargs(enrollment_id, module_id, content_id), out)
                      EXCEPT !.method = method]
       /\ UNCHANGED <<courses, modules, contents, items, nextId, inflight>>

unmark_content_as_complete(u, method, enrollment_id, module_id, content_id) ==
    LET out == unmark_content_as_complete_outcome(
                   u, method, enrollment_id, module_id, content_id)
    IN /\ enrollments' =
             IF out = "unmarked"
             THEN [enrollments EXCEPT ![enrollment_id].completed_contents =
                                          @ \ {content_id}]
             ELSE enrollments
       /\ last' = [Resp("unmark_content_as_complete", u, enrollment_id, content_id,
                        "", NoOrder,
                        StudentKwargs(enrollment_id, module_id, content_id), out)
                      EXCEPT !.method = method]
       /\ UNCHANGED <<courses, modules, contents, items, nextId, inflight>>

\* ------------------------------------------------------------- player
\* ORDER BY "order" ASC: does row a sort before row b?  Where NULL sorts is
\* the database's choice (first on SQLite and MySQL, last on PostgreSQL).
SortsBefore(a, b, nulls_first) ==
    IF a.order = NoOrder THEN b.order # NoOrder /\ nulls_first
    ELSE IF b.order = NoOrder THEN ~nulls_first
    ELSE a.order < b.order

\* order_by('-order').first(): the rows that may come last.
last_by_order(rows, ids, nulls_first) ==
    {x \in ids : \A y \in ids : ~SortsBefore(rows[x], rows[y], nulls_first)}

\* order_by('order').first(): the rows that may come first (rows of equal
\* order come in any sequence).
first_by_order(rows, ids, nulls_first) ==
    {x \in ids : \A y \in ids : ~SortsBefore(rows[y], rows[x], nulls_first)}

\* self.kwargs.get(k): None (0 here, as falsy as the id 0) without the key.
kwargs_get(kw, k) == IF k \in DOMAIN kw THEN kw[k] ELSE 0

\* None, or a row of the set.
FirstOrNone(S) == IF S = {} THEN {0} ELSE S

\* The (selected_module, selected_content) pairs get_context_data may reach
\* for an Enrollment; {} when it raises Http404.
PlayerSelections(enrollment_id, kw, nulls_first) ==
    LET course == enrollments[enrollment_id].course
        module_id == kwargs_get(kw, "module_id")
        content_id == kwargs_get(kw, "content_id")
        mods == ModulesOf({course})
        first_content(m) ==
            IF m = 0 THEN {0}
            ELSE FirstOrNone(first_by_order(contents, ContentsOf({m}), nulls_first))
    IN IF module_id # 0 /\ module_id \notin mods THEN {}
       ELSE IF module_id = 0
       THEN UNION {{<<m, c>> : c \in first_content(m)} :
                      m \in FirstOrNone(first_by_order(modules, mods, nulls_first))}
       ELSE IF content_id = 0
       THEN {<<module_id, c>> : c \in first_content(module_id)}
       ELSE IF content_id \in ContentsOf({module_id})
       THEN {<<module_id, content_id>>}
       ELSE {}

\* CoursePlayerView (GET) on the three course_player routes.
CoursePlayerView(u, route, kw, nulls_first) ==
    LET enrollment_id == kw.enrollment_id
        found == /\ enrollment_id \in DOMAIN enrollments
                 /\ enrollments[enrollment_id].student = u
        sels == IF found THEN PlayerSelections(enrollment_id, kw, nulls_first)
                ELSE {}
        out == IF ~is_authenticated(u) THEN "login"
               ELSE IF sels = {} THEN "not_found"
               ELSE "rendered"
    IN /\ \E sel \in IF out = "rendered" THEN sels ELSE {<<0, 0>>} :
             last' = [Resp("course_player", u, enrollment_id, 0, "", NoOrder, kw, out)
                         EXCEPT !.route = route,
                                !.context = [selected_module |-> sel[1],
                                             selected_content |-> sel[2]]]
       /\ UNCHANGED <<courses, modules, contents, items, enrollments, nextId, inflight>>

\* The kwargs each course_player route hands the view.
PlayerKwargs(route) ==
    IF route = "course_player_home"
    THEN [enrollment_id : 1..MaxEnrollments]
    ELSE IF route = "course_player_module"
    THEN [enrollment_id : 1..MaxEnrollments, module_id : 0..MaxModules]
    ELSE [enrollment_id : 1..MaxEnrollments, module_id : 0..MaxModules,
          content_id : 0..MaxContents]
PlayerRoutes == {"course_player_home", "course_player_module", "course_player_content"}

\* ------------------------------------------------------------- test_func
\* One evaluation of CourseOwnerRequiredMixin.test_func for a request of
\* user u with URL kwargs kw.  It reads the tables and writes none.
CourseOwnerTest(u, route, kw) ==
    /\ last' = [Resp("test_func", u, 0, 0, "", NoOrder, kw,
                     IF CourseOwnerRequiredMixin_test_func(u, kw)
                     THEN "True" ELSE "False")
                EXCEPT !.route = route]
    /\ UNCHANGED <<courses, modules, contents, items, enrollments, nextId, inflight>>

\* ------------------------------------------------------------- routes
\* urls.py: the routes wired to a view that lists CourseOwnerRequiredMixin,
\* each with the kwargs its path captures (model_name is no id and is left
\* out) for ids drawn from 1..n.
Fn1(k, v) == [x \in {k} |-> v]
Fn2(k1, v1, k2, v2) == [x \in {k1, k2} |-> IF x = k1 THEN v1 ELSE v2]

RouteKwargs(route, n) ==
    CASE route \in {"course_edit", "course_delete", "module_delete"} ->
            {Fn1("pk", a) : a \in 1..n}
      [] route = "module_create" -> {Fn1("course_id", a) : a \in 1..n}
      [] route = "module_update" ->
            {Fn2("course_id", a, "pk", b) : a \in 1..n, b \in 1..n}
      [] route = "module_content_create" -> {Fn1("module_id", a) : a \in 1..n}
      [] route = "module_content_update" ->
            {Fn2("module_id", a, "pk", b) : a \in 1..n, b \in 1..n}
      [] route = "content_delete" -> {Fn1("content_id", a) : a \in 1..n}
      \* no route of a view with the mixin: an enrollment id, or no id at all
      [] OTHER -> {Fn1("enrollment_id", a) : a \in 1..n} \cup {Empty}

OwnerRoutes ==
    {"course_edit", "course_delete", "module_create", "module_update",
     "module_delete", "module_content_create", "module_content_update",
     "content_delete"}

\* ------------------------------------------------------------- specifications
\* Course, module and content management by every kind of user.
Next ==
    \/ \E u \in Instructors : CourseCreateView(u, TRUE)
    \/ \E u \in Users, pk \in 1..MaxCourses : CourseUpdateView(u, pk, FALSE)
    \/ \E u \in Users, pk \in 1..MaxCourses : CourseDeleteView(u, pk)
    \/ \E u \in Instructors, c \in 1..MaxCourses : ModuleCreateUpdateView_post(u, c, 0, NoOrder)
    \/ \E u \in Users, pk \in 1..MaxModules : ModuleDeleteView(u, pk)
    \/ \E u \in Instructors :
          ModuleContentCreateUpdateView_post(u, 1, "textcontent", 0, 1, "a", Blank, "x")
    \/ \E u \in Instructors, pk \in 1..MaxContents : ContentDeleteView(u, pk)

Spec == Init /\ [][Next]_vars

\* The tables built by their owners, and test_func evaluated on every route.
NextOwnerTest ==
    \/ \E u \in Instructors : CourseCreateView(u, TRUE)
    \/ \E u \in Instructors, c \in 1..MaxCourses : ModuleCreateUpdateView_post(u, c, 0, NoOrder)
    \/ \E u \in Instructors :
          ModuleContentCreateUpdateView_post(u, 1, "textcontent", 0, 1, "a", Blank, "x")
    \/ enroll_course("s1", "POST", 1)
    \/ \E u \in Users, r \in OwnerRoutes \cup {"none"} :
          \E kw \in RouteKwargs(r, MaxCourses) : CourseOwnerTest(u, r, kw)

SpecOwnerTest == Init /\ [][NextOwnerTest]_vars

\* Content authoring: instructor i1 owns the course and its modules; i1 and
\* i2 open and post the content form.  "quiz" is a model_name that names no
\* payload model.
OrderInputs == {Omitted, Blank} \cup 0..MaxOrder

NextContent ==
    \/ nextId.course = 1 /\ CourseCreateView("i1", TRUE)
    \/ ModuleCreateUpdateView_post("i1", 1, 0, NoOrder)
    \* the form opened
    \/ \E mn \in {"textcontent", "videocontent", "quiz"}, pk \in 0..MaxContents :
          ModuleContentCreateUpdateView_get("i1", 1, mn, pk)
    \* a content created: every module, posted module and order input
    \/ \E m \in 1..MaxModules, fm \in 1..MaxModules, ord_in \in OrderInputs :
          ModuleContentCreateUpdateView_post("i1", m, "textcontent", 0, fm, "a", ord_in, "x")
    \* a content updated
    \/ \E m \in 1..MaxModules, pk \in 1..MaxContents, fm \in 1..MaxModules,
          ord_in \in OrderInputs :
          ModuleContentCreateUpdateView_post("i1", m, "textcontent", pk, fm, "a", ord_in, "y")
    \* another kind, or no kind at all, in the path
    \/ \E m \in 1..MaxModules, mn \in {"videocontent", "quiz"}, pk \in 0..MaxContents :
          ModuleContentCreateUpdateView_post("i1", m, mn, pk, m, "a", Blank, "y")
    \* a payload form that does not validate
    \/ \E pk \in 0..MaxContents :
          ModuleContentCreateUpdateView_post("i1", 1, "textcontent", pk, 1, "a", Blank, "")
    \* the other instructor
    \/ \E pk \in 0..MaxContents :
          \/ ModuleContentCreateUpdateView_get("i2", 1, "textcontent", pk)
          \/ ModuleContentCreateUpdateView_post("i2", 1, "textcontent", pk, 1, "a", Blank, "y")

SpecContent == Init /\ [][NextContent]_vars

\* The bulk reorder.  A pair of the posted list is [id, order], either of
\* them possibly missing; the list has at most MaxBatch pairs.
MaxBatch == 2
OrderPairs == [id : {Omitted} \cup 1..MaxContents, order : {Omitted} \cup 0..MaxOrder]
Batches == UNION {[1..n -> OrderPairs] : n \in 0..MaxBatch}

NextOrder ==
    \/ nextId.course = 1 /\ CourseCreateView("i1", TRUE)
    \/ ModuleCreateUpdateView_post("i1", 1, 0, NoOrder)
    \/ \E m \in 1..MaxModules :
          ModuleContentCreateUpdateView_post("i1", m, "textcontent", 0, m, "a", Blank, "x")
    \/ \E m \in 1..MaxModules, batch \in Batches :
          ContentOrderView_post("i1", m, TRUE, batch)
    \/ \E u \in Users :
          ContentOrderView_post(u, 1, FALSE, <<>>)
SpecOrder == Init /\ [][NextOrder]_vars

\* Enrollment: instructors open and delete courses, every kind of user
\* sends GET and POST to the enroll URL of every course id.
NextEnroll ==
    \/ \E u \in Instructors : CourseCreateView(u, TRUE)
    \/ \E u \in Instructors, pk \in 1..MaxCourses : CourseDeleteView(u, pk)
    \/ \E u \in Users, method \in {"GET", "POST"}, c \in 1..MaxCourses :
          enroll_course(u, method, c)
SpecEnroll == Init /\ [][NextEnroll]_vars

\* Enrollment with requests interleaved: every user's GET and POST to the
\* enroll URL, stopped between the exists() test and the create.
InflightRequests == [req : 1..MaxInflight, user : Users, course : 1..MaxCourses]

NextEnrollRace ==
    \/ \E u \in Instructors : CourseCreateView(u, TRUE)
    \/ \E r \in 1..MaxInflight, u \in Users, method \in {"GET", "POST"},
          c \in 1..MaxCourses : enroll_course_check(r, u, method, c)
    \/ \E q \in InflightRequests : enroll_course_create(q)
SpecEnrollRace == Init /\ [][NextEnrollRace]_vars

\* Progress: i1 builds courses, the student enrolls, and users mark and
\* unmark contents while i1 adds and deletes them.
NextProgress ==
    \/ CourseCreateView("i1", TRUE)
    \/ \E c \in 1..MaxCourses : ModuleCreateUpdateView_post("i1", c, 0, NoOrder)
    \/ \E m \in 1..MaxModules :
          ModuleContentCreateUpdateView_post("i1", m, "textcontent", 0, m, "a", Blank, "x")
    \/ \E pk \in 1..MaxContents : ContentDeleteView("i1", pk)
    \/ \E c \in 1..MaxCourses : enroll_course("s1", "POST", c)
    \/ \E e \in 1..MaxEnrollments, m \in 1..MaxModules, c \in 1..MaxContents :
          \/ mark_content_as_complete("s1", "POST", e, m, c)
          \/ unmark_content_as_complete("s1", "POST", e, m, c)
    \/ \E u \in {"s1", "i1", "anon"} :
          LET method == IF u = "s1" THEN "GET" ELSE "POST"
          IN \/ mark_content_as_complete(u, method, 1, 1, 1)
             \/ unmark_content_as_complete(u, method, 1, 1, 1)
SpecProgress == Init /\ [][NextProgress]_vars

\* Ordering: i1 creates contents with and without an order, updates them
\* (order and module), and reorders each module in bulk.
NextOrdering ==
    \/ nextId.course = 1 /\ CourseCreateView("i1", TRUE)
    \/ ModuleCreateUpdateView_post("i1", 1, 0, NoOrder)
    \/ \E m \in 1..MaxModules, ord_in \in OrderInputs :
          ModuleContentCreateUpdateView_post("i1", m, "textcontent", 0, m, "a", ord_in, "x")
    \/ \E m \in 1..MaxModules, pk \in 1..MaxContents, fm \in 1..MaxModules,
          ord_in \in OrderInputs :
          ModuleContentCreateUpdateView_post("i1", m, "textcontent", pk, fm, "a", ord_in, "y")
    \/ \E m \in 1..MaxModules, batch \in Batches :
          ContentOrderView_post("i1", m, TRUE, batch)
SpecOrdering == Init /\ [][NextOrdering]_vars

\* The player: i1 builds courses whose modules may share an order and whose
\* contents may lose theirs, the student enrolls and opens the player.
NextPlayer ==
    \/ CourseCreateView("i1", TRUE)
    \/ \E c \in 1..MaxCourses, ord \in {NoOrder, 1} :
          ModuleCreateUpdateView_post("i1", c, 0, ord)
    \/ \E m \in 1..MaxModules :
          ModuleContentCreateUpdateView_post("i1", m, "textcontent", 0, m, "a", Blank, "x")
    \/ \E pk \in DOMAIN contents :
          ModuleContentCreateUpdateView_post("i1", contents[pk].module, "textcontent",
                                             pk, contents[pk].module, "a", Blank, "y")
    \/ \E c \in 1..MaxCourses : enroll_course("s1", "POST", c)
    \/ \E route \in PlayerRoutes, nulls_first \in BOOLEAN :
          \E kw \in PlayerKwargs(route) : CoursePlayerView("s1", route, kw, nulls_first)
    \/ \E u \in {"i1", "anon"} :
          CoursePlayerView(u, "course_player_home", [enrollment_id |-> 1], TRUE)
SpecPlayer == Init /\ [][NextPlayer]_vars

\* ------------------------------------------------------------- properties
Changed(f, g, k) == k \notin DOMAIN g \/ g[k] # f[k]

\* Who owns what, read in the state before the request.
CourseOwner(c) == courses[c].instructor
ModuleOwner(m) == courses[modules[m].course].instructor
ContentOwner(c) == courses[modules[contents[c].module].course].instructor

\* C1: every request that changes or deletes a Course, Module or Content row,
\* or adds a Module or Content row, is made by an authenticated instructor who
\* is the instructor of the course that owns the row; in particular a course
\* update or delete and a module delete that succeed are the owner's.
C1_OnlyOwnerWrites ==
    [][ /\ \A c \in DOMAIN courses :
              Changed(courses, courses', c) =>
                 last'.user \in Instructors /\ CourseOwner(c) = last'.user
        /\ \A m \in DOMAIN modules :
              Changed(modules, modules', m) =>
                 last'.user \in Instructors /\ ModuleOwner(m) = last'.user
        /\ \A c \in DOMAIN contents :
              Changed(contents, contents', c) =>
                 last'.user \in Instructors /\ ContentOwner(c) = last'.user
        /\ \A m \in DOMAIN modules' \ DOMAIN modules :
              courses'[modules'[m].course].instructor = last'.user
        /\ \A c \in DOMAIN contents' \ DOMAIN contents :
              courses'[modules'[contents'[c].module].course].instructor = last'.user
        /\ (last'.op \in {"course_edit", "course_delete"}
              /\ last'.outcome \in {"saved", "deleted"})
              => CourseOwner(last'.pk) = last'.user
        /\ (last'.op = "module_delete" /\ last'.outcome = "deleted")
              => ModuleOwner(last'.pk) = last'.user
      ]_vars

\* The Course that owns the entity a route identifies (none when the entity
\* is missing).
RouteCourse(route, kw) ==
    CASE route \in {"course_edit", "course_delete"} -> {kw["pk"]} \cap DOMAIN courses
      [] route = "module_create" -> {kw["course_id"]} \cap DOMAIN courses
      [] route \in {"module_update", "module_delete"} ->
            {modules[m].course : m \in {kw["pk"]} \cap DOMAIN modules}
      [] route = "module_content_create" ->
            {modules[m].course : m \in {kw["module_id"]} \cap DOMAIN modules}
      [] route = "module_content_update" ->
            {modules[contents[c].module].course : c \in {kw["pk"]} \cap DOMAIN contents}
      [] route = "content_delete" ->
            {modules[contents[c].module].course :
                c \in {kw["content_id"]} \cap DOMAIN contents}
      [] OTHER -> {}

\* C2: on every route of a view with CourseOwnerRequiredMixin, test_func
\* returns True exactly when the user is an authenticated instructor and the
\* instructor of the Course that owns the entity the route identifies (the
\* module of pk on module_update and module_delete, the content of pk on
\* module_content_update, the course itself on course_edit and course_delete).
C2_TestFuncResolvesRouteEntity ==
    (last.op = "test_func" /\ last.route \in OwnerRoutes) =>
        ((last.outcome = "True") <=>
            (/\ last.user \in Instructors
             /\ \E c \in RouteCourse(last.route, last.kw) :
                    courses[c].instructor = last.user))

\* The identifier test_func reads: the first of these keys the kwargs hold.
IdKeys == <<"pk", "course_id", "module_id", "content_id", "enrollment_id">>
SelectedKey(kw) ==
    LET present == {i \in 1..Len(IdKeys) : IdKeys[i] \in DOMAIN kw}
    IN IF present = {} THEN "none"
       ELSE IdKeys[CHOOSE i \in present : \A j \in present : i <= j]

\* The row the selected identifier refers to is missing.
RowMissing(kw) ==
    LET k == SelectedKey(kw)
    IN CASE k \in {"pk", "course_id"} -> kw[k] \notin DOMAIN courses
         [] k = "module_id" -> kw[k] \notin DOMAIN modules
         [] k = "content_id" -> kw[k] \notin DOMAIN contents
         [] k = "enrollment_id" -> kw[k] \notin DOMAIN enrollments
         [] OTHER -> TRUE

\* The course the selected identifier leads to belongs to someone else.
OthersCourse(u, kw) ==
    LET k == SelectedKey(kw)
        c == CASE k \in {"pk", "course_id"} -> kw[k]
               [] k = "module_id" -> modules[kw[k]].course
               [] k = "content_id" -> modules[contents[kw[k]].module].course
               [] OTHER -> enrollments[kw[k]].course
    IN ~RowMissing(kw) /\ courses[c].instructor # u

\* C3: test_func fails closed: it returns False for an unauthenticated user
\* or one who is no instructor, for kwargs with none of the five identifiers,
\* when the row its identifier refers to does not exist, and when the course
\* it resolves belongs to a different user.
C3_TestFuncFailsClosed ==
    (/\ last.op = "test_func"
     /\ \/ ~is_authenticated(last.user)
        \/ user_type(last.user) # "instructor"
        \/ SelectedKey(last.kw) = "none"
        \/ RowMissing(last.kw)
        \/ OthersCourse(last.user, last.kw))
    => last.outcome = "False"

\* C3 witness: an instructor who owns a course is denied on a module_id that
\* names no Module row.
C3_Witness ==
    /\ last.op = "test_func"
    /\ last.outcome = "False"
    /\ \E c \in DOMAIN courses : courses[c].instructor = last.user
    /\ SelectedKey(last.kw) = "module_id"
    /\ RowMissing(last.kw)

\* The payload rows a Content row references.
Referenced(rows) == {<<rows[c].content_type, rows[c].object_id>> : c \in DOMAIN rows}

\* C4: a content POST writes its payload row and its Content row together or
\* not at all: a POST that does not end saved leaves both tables as they
\* were, and every payload row a POST adds or rewrites is referenced by a
\* Content row once the request is done.
C4_PayloadWithContent ==
    [][ last'.op = "content_post" =>
          /\ last'.outcome # "saved" => (items' = items /\ contents' = contents)
          /\ \A k \in Kinds : \A i \in DOMAIN items'[k] :
                (i \notin DOMAIN items[k] \/ items'[k][i] # items[k][i])
                   => <<k, i>> \in Referenced(contents')
      ]_vars

\* C4 witness: the Content save failed on the (module, order) constraint.
C4_Witness ==
    /\ last.op = "content_post"
    /\ last.outcome = "integrity_error"
    /\ contents # Empty

\* C6: a Content a POST creates has the order the form supplied when it
\* supplied one (0 included), and otherwise one more than the largest order
\* among the Contents already in its module, or 1 when there is none.
C6_CreatedOrder ==
    [][ \A c \in DOMAIN contents' \ DOMAIN contents :
          LET m == contents'[c].module
              taken == {contents[d].order : d \in ContentsOf({m})} \ {NoOrder}
              ord == contents'[c].order
          IN /\ last'.op = "content_post"
             /\ IF last'.order # NoOrder THEN ord = last'.order
                ELSE IF taken = {} THEN ord = 1
                ELSE ord - 1 \in taken /\ \A o \in taken : o < ord
      ]_vars

\* C6 witness: a Content created without an order beside one of order 1.
C6_Witness ==
    /\ last.op = "content_post" /\ last.pk = 0 /\ last.outcome = "saved"
    /\ last.order = NoOrder
    /\ \E c, d \in DOMAIN contents :
          /\ contents[c].module = last.id /\ contents[c].order = 1
          /\ contents[d].module = last.id /\ contents[d].order = 2

\* C7: an update whose model_name differs from the kind of the existing
\* Content's payload leaves every Content and payload row unchanged, and,
\* made by the owner of the path's module for a Content of that module, ends
\* in the Conflict outcome.
C7_KindMismatch ==
    [][ (/\ last'.op = "content_post"
         /\ last'.pk \in DOMAIN contents
         /\ ItemKind(contents[last'.pk]) # last'.model_name)
        => /\ contents' = contents /\ items' = items
           /\ (OwnedModule(last'.user, last'.id)
                 /\ contents[last'.pk].module = last'.id)
              => last'.outcome = "conflict"
      ]_vars

\* C7 witness: an update refused for the kind.
C7_Witness ==
    /\ last.op = "content_post" /\ last.outcome = "conflict"
    /\ last.pk \in DOMAIN contents
    /\ last.model_name = "videocontent"
    /\ contents[last.pk].content_type = "textcontent"

\* C8: a GET or POST of the content form by an instructor with a model_name
\* that is none of the four kinds ends NotFound and writes nothing.
C8_UnknownKindNotFound ==
    [][ (/\ last'.op \in {"content_get", "content_post"}
         /\ last'.model_name \notin Kinds
         /\ last'.user \in Instructors)
        => /\ last'.outcome = "not_found"
           /\ UNCHANGED db
      ]_vars

\* C5: a bulk reorder that ends in an error leaves the order of every Content
\* as it was before the request.
C5_ReorderErrorChangesNothing ==
    [][ (last'.op = "content_order" /\ last'.outcome # "ok")
        => \A c \in DOMAIN contents : contents'[c].order = contents[c].order
      ]_vars

\* The Enrollment rows of a student and a course.
EnrollmentsOf(rows, u, c) ==
    {e \in DOMAIN rows : rows[e].student = u /\ rows[e].course = c}

\* C9: a request to the enroll URL adds an Enrollment exactly when it is a
\* POST of an authenticated student for an existing course the student is
\* not enrolled in; the row it adds is the one of that student and course,
\* and no request to the URL changes or removes a row.
C9_EnrollExactlyWhen ==
    [][ last'.op \in {"enroll_post", "enroll_get"} =>
          LET u == last'.user
              c == last'.id
              may == /\ last'.op = "enroll_post"
                     /\ u \in Students
                     /\ c \in DOMAIN courses
                     /\ EnrollmentsOf(enrollments, u, c) = {}
              new == DOMAIN enrollments' \ DOMAIN enrollments
          IN /\ may <=> new # {}
             /\ Cardinality(new) <= 1
             /\ \A e \in new : enrollments'[e].student = u /\ enrollments'[e].course = c
             /\ \A e \in DOMAIN enrollments :
                   e \in DOMAIN enrollments' /\ enrollments'[e] = enrollments[e]
      ]_vars

\* C9 witness: a student's POST added an Enrollment.
C9_Witness ==
    /\ last.op = "enroll_post" /\ last.outcome = "enrolled"
    /\ EnrollmentsOf(enrollments, last.user, last.id) # {}

\* C10: a student's enroll POST for an existing course reports "enrolled"
\* when the student is not enrolled and leaves one Enrollment of the pair;
\* repeated, it reports "already enrolled", changes no table, and there is
\* still one Enrollment of the pair.
C10_EnrollTwice ==
    [][ (/\ last'.op = "enroll_post"
         /\ last'.user \in Students
         /\ last'.id \in DOMAIN courses)
        => LET u == last'.user
               c == last'.id
           IN /\ Cardinality(EnrollmentsOf(enrollments', u, c)) = 1
              /\ IF EnrollmentsOf(enrollments, u, c) = {}
                 THEN last'.outcome = "enrolled"
                 ELSE last'.outcome = "already_enrolled" /\ UNCHANGED db
      ]_vars

\* C10 witness: the second POST of the pair has been answered.
C10_Witness ==
    /\ last.op = "enroll_post" /\ last.outcome = "already_enrolled"
    /\ Cardinality(EnrollmentsOf(enrollments, last.user, last.id)) = 1

\* C11: when enroll POSTs for one student and course interleave, the pair
\* has at most one Enrollment and no request is answered with a failure.
C11_RaceIsSuccess ==
    /\ \A u \in Users, c \in 1..MaxCourses :
          Cardinality(EnrollmentsOf(enrollments, u, c)) <= 1
    /\ last.op = "enroll_post" => last.outcome # "failed"

\* The Content rows of the course of an Enrollment.
CourseContents(e) ==
    {c \in DOMAIN contents :
        /\ contents[c].module \in DOMAIN modules
        /\ modules[contents[c].module].course = enrollments[e].course}

\* C12: get_progress is 0 when the course of the enrollment has no Content
\* in any module; with Contents, it is 100 when completed_contents is the
\* set of them all, and in every case 100 * |completed_contents| / (number
\* of Contents of the course's modules).
C12_Progress ==
    \A e \in DOMAIN enrollments :
       LET all == CourseContents(e)
           done == enrollments[e].completed_contents
           p == get_progress(e)
       IN /\ p.den > 0
          /\ all = {} => p.num = 0
          /\ (all # {} /\ done = all) => p.num = 100 * p.den
          /\ all # {} => p.num * Cardinality(all) = 100 * Cardinality(done) * p.den

\* C12 witness: an enrollment with one of the two Contents of its course
\* completed.
C12_Witness ==
    \E e \in DOMAIN enrollments :
       /\ Cardinality(CourseContents(e)) = 2
       /\ Cardinality(enrollments[e].completed_contents) = 1
       /\ get_progress(e).num * 2 = 100 * get_progress(e).den

\* p <= q for quotients of positive denominators.
QuotientLeq(p, q) == p.num * q.den <= q.num * p.den

\* C13: a mark step that leaves the Content rows as they are leaves the
\* progress of its enrollment equal or larger, and an unmark step equal or
\* smaller.
C13_ProgressMonotone ==
    [][ (/\ last'.op \in {"mark_content_as_complete", "unmark_content_as_complete"}
         /\ last'.id \in DOMAIN enrollments
         /\ contents' = contents)
        => \A e \in DOMAIN enrollments :
              e = last'.id =>
                 IF last'.op = "mark_content_as_complete"
                 THEN QuotientLeq(get_progress(e), get_progress(e)')
                 ELSE QuotientLeq(get_progress(e)', get_progress(e))
      ]_vars

\* C13 witness: an unmark after which the progress is below 100 with a
\* Content still completed.
C13_Witness ==
    /\ last.op = "unmark_content_as_complete" /\ last.outcome = "unmarked"
    /\ last.id \in DOMAIN enrollments
    /\ enrollments[last.id].completed_contents # {}
    /\ get_progress(last.id).num < 100 * get_progress(last.id).den

\* C14: marking a completed Content and unmarking one that is not completed
\* leave every set as it is and are answered with the information message;
\* after a mark the Content is in the set and after an unmark it is not, so
\* a second mark or unmark changes nothing.
C14_MarkIdempotent ==
    [][ (/\ last'.op \in {"mark_content_as_complete", "unmark_content_as_complete"}
         /\ last'.user # "anon"
         /\ last'.outcome \notin {"not_post", "not_found"})
        => LET e == last'.id
               c == last'.pk
               was == c \in enrollments[e].completed_contents
               is == c \in enrollments'[e].completed_contents
           IN IF last'.op = "mark_content_as_complete"
              THEN /\ is
                   /\ was => (enrollments' = enrollments
                                /\ last'.outcome = "already_completed")
              ELSE /\ ~is
                   /\ ~was => (enrollments' = enrollments
                                 /\ last'.outcome = "not_completed")
      ]_vars

\* C14 witness: a second mark of a completed Content has been answered.
C14_Witness ==
    /\ last.op = "mark_content_as_complete"
    /\ last.outcome = "already_completed"
    /\ last.pk \in enrollments[last.id].completed_contents

\* C15: no two Contents of one module hold the same order, NULL apart.
C15_UniqueOrder ==
    \A c, d \in DOMAIN contents :
       (/\ c # d
        /\ contents[c].module = contents[d].module
        /\ contents[c].order # NoOrder)
       => contents[c].order # contents[d].order

\* C15 witness: a bulk reorder refused by the constraint, the two Contents
\* of the module holding two orders.
C15_Witness ==
    /\ last.op = "content_order" /\ last.outcome = "integrity_error"
    /\ \E c, d \in DOMAIN contents :
          /\ c # d
          /\ contents[c].module = last.id /\ contents[d].module = last.id
          /\ contents[c].order # NoOrder /\ contents[d].order # NoOrder

\* C16: every payload row is referenced by exactly one Content row.
C16_PayloadReferencedOnce ==
    \A k \in Kinds : \A i \in DOMAIN items[k] :
       Cardinality({c \in DOMAIN contents :
                       contents[c].content_type = k /\ contents[c].object_id = i}) = 1

\* o1 may come no later than o2 in ascending order, NULL sorting first
\* (nulls_first) or last.
OrderLeq(o1, o2, nulls_first) ==
    IF o1 = NoOrder THEN nulls_first \/ o2 = NoOrder
    ELSE IF o2 = NoOrder THEN ~nulls_first
    ELSE o1 <= o2

\* x is a row of ids with the smallest order, or None when ids is empty.
Smallest(rows, ids, x) ==
    IF ids = {} THEN x = 0
    ELSE /\ x \in ids
         /\ \E nulls_first \in BOOLEAN :
               \A y \in ids : OrderLeq(rows[x].order, rows[y].order, nulls_first)

\* C17: the player changes no row.  Rendered for a route with no module_id,
\* it selects a module of the smallest order in the course of the
\* enrollment; rendered for a module_id of that course and no content_id, it
\* selects that module; either way it selects a content of the smallest
\* order in the selected module (none when there is none).
C17_PlayerSelectsFirst ==
    [][ last'.op = "course_player" =>
          /\ UNCHANGED db
          /\ (last'.outcome = "rendered" /\ "content_id" \notin DOMAIN last'.kw) =>
                LET mods == {m \in DOMAIN modules :
                                modules[m].course = enrollments[last'.id].course}
                    sm == last'.context.selected_module
                    sc == last'.context.selected_content
                    cs == {c \in DOMAIN contents : contents[c].module = sm}
                IN /\ "module_id" \notin DOMAIN last'.kw => Smallest(modules, mods, sm)
                   /\ ("module_id" \in DOMAIN last'.kw /\ last'.kw.module_id \in mods)
                         => sm = last'.kw.module_id
                   /\ Smallest(contents, cs, sc)
      ]_vars

\* C17 witness: the player opened without a module_id on a course of two
\* modules, the selected module holding two contents.
C17_Witness ==
    /\ last.op = "course_player" /\ last.outcome = "rendered"
    /\ last.route = "course_player_home"
    /\ Cardinality({m \in DOMAIN modules :
                       modules[m].course = enrollments[last.id].course}) = 2
    /\ Cardinality({c \in DOMAIN contents :
                       contents[c].module = last.context.selected_module}) = 2
    /\ last.context.selected_content # 0

\* C18: the player of a student's own enrollment answers NotFound when the
\* route's module_id is not a module of the enrollment's course, and when
\* the route gives a module_id and a content_id and the content_id is not a
\* Content of that module; rendered, its selected module is of the course
\* and its selected content of the selected module.
C18_PlayerNotFound ==
    [][ (/\ last'.op = "course_player"
         /\ last'.id \in DOMAIN enrollments
         /\ enrollments[last'.id].student = last'.user)
        => LET kw == last'.kw
               mods == {m \in DOMAIN modules :
                           modules[m].course = enrollments[last'.id].course}
               sm == last'.context.selected_module
               sc == last'.context.selected_content
           IN /\ ("module_id" \in DOMAIN kw /\ kw.module_id \notin mods)
                    => last'.outcome = "not_found"
              /\ (/\ "content_id" \in DOMAIN kw
                  /\ kw.module_id \in mods
                  /\ \/ kw.content_id \notin DOMAIN contents
                     \/ contents[kw.content_id].module # kw.module_id)
                    => last'.outcome = "not_found"
              /\ last'.outcome = "rendered" =>
                    /\ sm # 0 => sm \in mods
                    /\ sc # 0 => (sc \in DOMAIN contents /\ contents[sc].module = sm)
      ]_vars

\* The course an owner-gated request targets, 0 when the row its path names
\* (or a row between it and the course) is missing.
CourseOfModule(m) == IF m \in DOMAIN modules THEN modules[m].course ELSE 0
TargetCourse(r) ==
    IF r.op \in {"course_edit", "course_delete"}
    THEN (IF r.pk \in DOMAIN courses THEN r.pk ELSE 0)
    ELSE IF r.op = "module_post"
    THEN (IF r.id \in DOMAIN courses THEN r.id ELSE 0)
    ELSE IF r.op = "module_delete" THEN CourseOfModule(r.pk)
    ELSE IF r.op \in {"content_post", "content_get", "content_order"}
    THEN CourseOfModule(r.id)
    ELSE IF r.op = "content_delete"
    THEN (IF r.pk \in DOMAIN contents THEN CourseOfModule(contents[r.pk].module) ELSE 0)
    ELSE 0

\* C19: an instructor's owner-gated request for a target of another
\* instructor's course is answered as the same request for a missing target
\* is, with NotFound, and changes nothing.
C19_NotYoursIsNotFound ==
    [][ (/\ last'.user \in Instructors
         /\ TargetCourse(last') # 0
         /\ courses[TargetCourse(last')].instructor # last'.user)
        => /\ last'.outcome \in {"not_found", "not_found_module"}
           /\ UNCHANGED db
      ]_vars

NextCompletion ==
    \/ CourseCreateView("i1", TRUE)
    \/ \E c \in 1..MaxCourses :
          nextId.module = c /\ ModuleCreateUpdateView_post("i1", c, 0, NoOrder)
    \/ ModuleContentCreateUpdateView_post("i1", 1, "textcontent", 0, 1, "a", Blank, "x")
    \/ \E pk \in DOMAIN contents, fm \in 1..MaxModules :
          ModuleContentCreateUpdateView_post("i1", contents[pk].module, "textcontent",
                                             pk, fm, "a", Blank, "y")
    \/ enroll_course("s1", "POST", 1)
    \/ \E c \in DOMAIN contents :
          \/ mark_content_as_complete("s1", "POST", 1, contents[c].module, c)
          \/ unmark_content_as_complete("s1", "POST", 1, contents[c].module, c)
    \/ \E pk \in DOMAIN contents : ContentDeleteView("i1", pk)
    \/ \E pk \in DOMAIN modules : ModuleDeleteView("i1", pk)
    \/ \E pk \in DOMAIN courses : CourseDeleteView("i1", pk)
SpecCompletion == Init /\ [][NextCompletion]_vars

\* C21: a successful content update through ModuleContentCreateUpdateView.post
\* leaves the Content's module, content_type and object_id unchanged,
\* whatever module the submitted form carries, so that no update moves a
\* Content into a module of a course the acting instructor does not own.
C21_UpdateKeepsModule ==
    [][ (/\ last'.op = "content_post" /\ last'.outcome = "saved"
         /\ last'.pk \in DOMAIN contents)
        => \A c \in DOMAIN contents :
              c = last'.pk =>
                 /\ c \in DOMAIN contents'
                 /\ contents'[c].module = contents[c].module
                 /\ contents'[c].content_type = contents[c].content_type
                 /\ contents'[c].object_id = contents[c].object_id
                 /\ contents'[c].module \in DOMAIN modules
                 /\ courses[modules[contents'[c].module].course].instructor = last'.user
      ]_vars

\* C22: in every reachable state each Enrollment's completed_contents holds
\* only Content rows that exist and belong to a module of the enrollment's
\* course, and get_progress lies between 0 and 100 inclusive.
C22_CompletedInCourse ==
    \A e \in DOMAIN enrollments :
       /\ enrollments[e].completed_contents \subseteq CourseContents(e)
       /\ get_progress(e).num >= 0
       /\ get_progress(e).num <= 100 * get_progress(e).den

\* The rows after every pair of a batch is applied in turn, no constraint
\* checked in between.
RECURSIVE ApplyAll(_, _)
ApplyAll(rows, batch) ==
    IF batch = <<>> THEN rows
    ELSE ApplyAll([rows EXCEPT ![Head(batch).id].order = Head(batch).order],
                  Tail(batch))

\* A batch whose ids all belong to the module and whose orders, once all
\* applied, are pairwise distinct within the module.
DistinctBatch(rows, module_id, batch) ==
    /\ \A i \in DOMAIN batch :
          /\ batch[i].id \in DOMAIN rows /\ batch[i].order # Omitted
          /\ rows[batch[i].id].module = module_id
    /\ \A c, d \in DOMAIN rows :
          (/\ c # d
           /\ rows[c].module = module_id /\ rows[d].module = module_id
           /\ ApplyAll(rows, batch)[c].order # NoOrder)
          => ApplyAll(rows, batch)[c].order # ApplyAll(rows, batch)[d].order

\* C23: a bulk reorder batch in which every id belongs to the path's module
\* and whose requested orders, once all applied, are pairwise distinct within
\* the module (a swap of two orders, say) ends in the success response with
\* every listed Content holding its requested order.
C23_DistinctBatchSucceeds ==
    \A m \in DOMAIN modules, batch \in Batches :
       DistinctBatch(contents, m, batch)
       => /\ OrderLoop(contents, m, batch).outcome = "ok"
          /\ OrderLoop(contents, m, batch).rows = ApplyAll(contents, batch)

\* Updates: i1 creates contents in the modules of one course and updates
\* them with either title and every order input.
NextUpdate ==
    \/ nextId.course = 1 /\ CourseCreateView("i1", TRUE)
    \/ ModuleCreateUpdateView_post("i1", 1, 0, NoOrder)
    \/ \E m \in 1..MaxModules :
          ModuleContentCreateUpdateView_post("i1", m, "textcontent", 0, m, "a", Blank, "x")
    \/ \E pk \in DOMAIN contents, title \in {"a", "b"}, ord_in \in OrderInputs :
          ModuleContentCreateUpdateView_post("i1", contents[pk].module, "textcontent",
                                             pk, contents[pk].module, title, ord_in, "y")
SpecUpdate == Init /\ [][NextUpdate]_vars

\* C24: a successful update of an existing Content sets its title and order
\* to exactly the submitted values and never derives an order from the
\* module's maximum (an update submitted without an order leaves the Content
\* with no order), and the payload row is modified in place: same id and
\* kind, no new payload row.
C24_UpdateSetsSubmitted ==
    [][ (/\ last'.op = "content_post" /\ last'.outcome = "saved"
         /\ last'.pk \in DOMAIN contents)
        => \A c \in DOMAIN contents :
              c = last'.pk =>
                 /\ DOMAIN contents' = DOMAIN contents
                 /\ contents'[c].title = last'.title
                 /\ contents'[c].order = last'.order
                 /\ contents'[c].content_type = contents[c].content_type
                 /\ contents'[c].object_id = contents[c].object_id
                 /\ \A k \in Kinds : DOMAIN items'[k] = DOMAIN items[k]
      ]_vars

\* C24 witness: an update submitted with a new title and without an order
\* has been saved, in a module where another Content holds an order: the
\* updated Content has the title and no order.
C24_Witness ==
    /\ last.op = "content_post" /\ last.outcome = "saved"
    /\ last.pk \in DOMAIN contents
    /\ last.title = "b" /\ last.order = NoOrder
    /\ contents[last.pk].title = "b" /\ contents[last.pk].order = NoOrder
    /\ \E d \in DOMAIN contents :
          /\ d # last.pk
          /\ contents[d].module = contents[last.pk].module
          /\ contents[d].order # NoOrder

\* C25: mark_content_as_complete and unmark_content_as_complete change only
\* the completed_contents of the enrollment named in the path, and only when
\* the request is a POST, the enrollment's student is the acting user, the
\* module belongs to the enrollment's course and the content belongs to that
\* module; in every other case no completion set changes, and no other
\* enrollment's set ever changes.
C25_MarkFrame ==
    [][ last'.op \in {"mark_content_as_complete", "unmark_content_as_complete"}
        => /\ UNCHANGED <<courses, modules, contents, items>>
           /\ DOMAIN enrollments' = DOMAIN enrollments
           /\ \A e \in DOMAIN enrollments :
                 /\ enrollments'[e].student = enrollments[e].student
                 /\ enrollments'[e].course = enrollments[e].course
                 /\ enrollments'[e] # enrollments[e] =>
                       /\ e = last'.id
                       /\ last'.method = "POST"
                       /\ enrollments[e].student = last'.user
                       /\ last'.kw.module_id \in DOMAIN modules
                       /\ modules[last'.kw.module_id].course = enrollments[e].course
                       /\ last'.pk \in DOMAIN contents
                       /\ contents[last'.pk].module = last'.kw.module_id
                       /\ \A c \in DOMAIN contents :
                             c # last'.pk =>
                                (c \in enrollments'[e].completed_contents
                                   <=> c \in enrollments[e].completed_contents)
      ]_vars

\* C25 witness: a mark has changed the set of the path's enrollment while
\* the student holds a second enrollment with another set.
C25_Witness ==
    /\ last.op = "mark_content_as_complete" /\ last.outcome = "marked"
    /\ last.method = "POST"
    /\ last.pk \in enrollments[last.id].completed_contents
    /\ \E e \in DOMAIN enrollments :
          e # last.id /\ last.pk \notin enrollments[e].completed_contents

\* Module orders: i1 creates and edits modules with an order, a blank order
\* or no order key at all.
ModuleOrderInputs == {Omitted, NoOrder} \cup 0..MaxOrder

NextModuleOrder ==
    \/ CourseCreateView("i1", TRUE)
    \/ \E c \in 1..MaxCourses, ord \in ModuleOrderInputs :
          ModuleCreateUpdateView_post("i1", c, 0, ord)
    \/ \E pk \in DOMAIN modules, ord \in ModuleOrderInputs :
          ModuleCreateUpdateView_post("i1", modules[pk].course, pk, ord)
SpecModuleOrder == Init /\ [][NextModuleOrder]_vars

\* C26: ModuleCreateUpdateView.post creating a module with no order assigns
\* it 1 + the maximum order among the modules already in the course (1 when
\* the course has none); a module saved with an explicit order keeps that
\* order even when another module of the course already holds it.
C26_ModuleOrder ==
    [][ (last'.op = "module_post" /\ last'.outcome = "saved")
        => \A m \in DOMAIN modules' :
              (m = last'.pk \/ (last'.pk = 0 /\ m \notin DOMAIN modules)) =>
                 IF last'.order \notin {Omitted, NoOrder}
                 THEN modules'[m].order = last'.order
                 ELSE last'.pk = 0 =>
                         modules'[m].order =
                            IF ModuleMaxOrder(last'.id) = NoOrder THEN 1
                            ELSE ModuleMaxOrder(last'.id) + 1
      ]_vars

\* CourseDetailView.get_queryset: every Course for an authenticated
\* instructor, the published ones for anybody else.
CourseDetailView_get_queryset(u) ==
    IF is_authenticated(u) /\ user_type(u) = "instructor"
    THEN DOMAIN courses
    ELSE {c \in DOMAIN courses : courses[c].is_published}

\* CourseDetailView (GET) on /<pk>/<slug>/.  The view has no access mixin;
\* get_object looks the pk up in the queryset (with a pk in the path the
\* slug takes no part in the lookup).
CourseDetailView(u, pk) ==
    /\ last' = Resp("course_detail", u, 0, pk, "", NoOrder, Empty,
                    IF pk \in CourseDetailView_get_queryset(u)
                    THEN "rendered" ELSE "not_found")
    /\ UNCHANGED <<db, nextId, inflight>>

\* The catalogue: both instructors create courses, published or not, and
\* edit their own; every user opens course pages.
NextDetail ==
    \/ \E u \in Instructors, pub \in BOOLEAN : CourseCreateView(u, pub)
    \/ \E pk \in DOMAIN courses, pub \in BOOLEAN :
          CourseUpdateView(courses[pk].instructor, pk, pub)
    \/ \E u \in Users, pk \in 1..MaxCourses : CourseDetailView(u, pk)
SpecDetail == Init /\ [][NextDetail]_vars

\* C27: CourseDetailView serves a course whose is_published is False only
\* to that course's own instructor; every other user (anonymous, student,
\* or an instructor of other courses) gets NotFound for it.
C27_UnpublishedOnlyToOwner ==
    (/\ last.op = "course_detail"
     /\ last.pk \in DOMAIN courses
     /\ ~courses[last.pk].is_published)
    => IF courses[last.pk].instructor = last.user
       THEN last.outcome = "rendered"
       ELSE last.outcome = "not_found"

\* Content.item, the GenericForeignKey over (content_type, object_id): the
\* row of that kind with that id, and None when there is none (the
\* descriptor swallows ObjectDoesNotExist).
Content_item(c) ==
    IF c.object_id \in DOMAIN items[c.content_type]
    THEN [outcome |-> "row", kind |-> c.content_type, id |-> c.object_id]
    ELSE [outcome |-> "None", kind |-> "nonetype", id |-> 0]

\* lower_class_name(obj) of courses_extras: the lowercased class name of a
\* truthy object, '' otherwise.
lower_class_name(item) == IF item.outcome = "row" THEN item.kind ELSE ""

\* The delete of a payload row on the admin site, where the four payload
\* models are registered.  No relation leads from the payload to its
\* Content, so the Content row stays.
ContentAdmin_delete(kind, id) ==
    /\ id \in DOMAIN items[kind]
    /\ items' = [items EXCEPT ![kind] = Drop(@, {id})]
    /\ last' = Resp("admin_delete", "anon", 0, id, kind, NoOrder, Empty, "deleted")
    /\ UNCHANGED <<courses, modules, contents, enrollments, nextId, inflight>>

\* Payloads: i1 creates contents of two kinds, the admin site deletes
\* payload rows, and i1 opens and posts the edit form of each Content.
NextItem ==
    \/ nextId.course = 1 /\ CourseCreateView("i1", TRUE)
    \/ nextId.module = 1 /\ ModuleCreateUpdateView_post("i1", 1, 0, NoOrder)
    \/ \E mn \in {"textcontent", "videocontent"} :
          ModuleContentCreateUpdateView_post("i1", 1, mn, 0, 1, "a", Blank, "x")
    \/ \E kind \in Kinds, id \in 1..MaxContents : ContentAdmin_delete(kind, id)
    \/ \E pk \in DOMAIN contents, mn \in {"textcontent", "videocontent"} :
          \/ ModuleContentCreateUpdateView_get("i1", 1, mn, pk)
          \/ ModuleContentCreateUpdateView_post("i1", 1, mn, pk, 1, "a", Blank, "y")
    \/ \E pk \in DOMAIN contents : ContentDeleteView("i1", pk)
SpecItem == Init /\ [][NextItem]_vars

\* C28: for every Content c, resolving c.item yields the payload row of the
\* kind named by c.content_type whose id is c.object_id, or fails NotFound
\* when no such row exists; it never yields a row of another kind.
C28_ItemResolves ==
    \A c \in DOMAIN contents :
       LET item == Content_item(contents[c])
       IN IF contents[c].object_id \in DOMAIN items[contents[c].content_type]
          THEN /\ item.outcome = "row"
               /\ item.kind = contents[c].content_type
               /\ item.id = contents[c].object_id
               /\ lower_class_name(item) = contents[c].content_type
          ELSE item.outcome = "NotFound"
====
